---- MODULE Spec2Model ----
(***************************************************************************)
(* A model of filetags.py: the Editor class (tags and comment of one file, *)
(* kept in extended attributes) and the batch commands that drive it.      *)
(*                                                                         *)
(* A Python str is a sequence of one-character strings, bytes are a        *)
(* sequence of code points, a Python list is a sequence.                   *)
(***************************************************************************)
EXTENDS Integers, Sequences, FiniteSets, TLC

VARIABLES store, ed, ret, batch

vars == <<store, ed, ret, batch>>

----------------------------------------------------------------------------
(* Bounds of the model *)

\* longest list of tags handed to set_tags / add_tags / remove_tags
MaxTags == 2
\* longest list of file names handed to a batch command
MaxFiles == 2

----------------------------------------------------------------------------
(* Python values *)

PyNone == [type |-> "NoneType", str |-> <<>>, list |-> <<>>]
PyStr(s) == [type |-> "str", str |-> s, list |-> <<>>]
PyList(l) == [type |-> "list", str |-> <<>>, list |-> l]

\* bool(v) of Python, for the values the model passes around
truthy(v) ==
    CASE v.type = "NoneType" -> FALSE
      [] v.type = "str" -> v.str # <<>>
      [] v.type = "list" -> v.list # <<>>

\* code point of a character (ASCII)
Ord(c) ==
    CASE c = " " -> 32
      [] c = "," -> 44
      [] c = "p" -> 112
      [] c = "x" -> 120
      [] c = "y" -> 121

Chr(n) ==
    CASE n = 32 -> " "
      [] n = 44 -> ","
      [] n = 112 -> "p"
      [] n = 120 -> "x"
      [] n = 121 -> "y"

\* str.encode(encoding) and bytes.decode() on ASCII text
encode(s) == [i \in DOMAIN s |-> Ord(s[i])]
decode(b) == [i \in DOMAIN b |-> Chr(b[i])]

\* a < b on Python str: lexicographic by code point, a proper prefix first
RECURSIVE StrLess(_, _)
StrLess(a, b) ==
    IF a = <<>> THEN b # <<>>
    ELSE IF b = <<>> THEN FALSE
    ELSE IF a[1] = b[1] THEN StrLess(Tail(a), Tail(b))
    ELSE Ord(a[1]) < Ord(b[1])

RECURSIVE insort(_, _)
insort(s, x) ==
    IF s = <<>> THEN <<x>>
    ELSE IF StrLess(x, s[1]) THEN <<x>> \o s
    ELSE <<s[1]>> \o insort(Tail(s), x)

\* sorted(iterable of str): ascending, duplicates kept
RECURSIVE sorted(_)
sorted(l) == IF l = <<>> THEN <<>> ELSE insort(sorted(Tail(l)), l[1])

\* set(list): one occurrence of each element (the order is immaterial,
\* every use sorts the result)
RECURSIVE set(_)
set(l) ==
    IF l = <<>> THEN <<>>
    ELSE LET r == set(Tail(l))
         IN IF \E i \in DOMAIN r : r[i] = l[1] THEN r ELSE <<l[1]>> \o r

RECURSIVE lstrip(_)
lstrip(s) == IF s # <<>> /\ s[1] = " " THEN lstrip(Tail(s)) ELSE s

RECURSIVE rstrip(_)
rstrip(s) ==
    IF s # <<>> /\ s[Len(s)] = " " THEN rstrip(SubSeq(s, 1, Len(s) - 1)) ELSE s

\* str.strip()
strip(s) == rstrip(lstrip(s))

\* str.split(sep): "a,,b" gives ["a", "", "b"], "" gives [""]
RECURSIVE split(_, _)
split(s, sep) ==
    IF \A i \in DOMAIN s : s[i] # sep THEN <<s>>
    ELSE LET k == CHOOSE i \in DOMAIN s :
                      s[i] = sep /\ \A j \in 1..(i - 1) : s[j] # sep
         IN <<SubSeq(s, 1, k - 1)>> \o split(SubSeq(s, k + 1, Len(s)), sep)

\* sep.join(list)
RECURSIVE join(_, _)
join(sep, l) ==
    IF l = <<>> THEN <<>>
    ELSE IF Len(l) = 1 THEN l[1]
    ELSE l[1] \o <<sep>> \o join(sep, Tail(l))

\* list.remove(x) under try/except ValueError: the first occurrence goes,
\* an absent x leaves the list alone
RECURSIVE list_remove(_, _)
list_remove(l, x) ==
    IF l = <<>> THEN <<>>
    ELSE IF l[1] = x THEN Tail(l)
    ELSE <<l[1]>> \o list_remove(Tail(l), x)

\* lit in s
contains(s, lit) ==
    \E i \in 1..(Len(s) - Len(lit) + 1) : SubSeq(s, i, i + Len(lit) - 1) = lit

\* the regular expressions of the model, and re.search(repat, s) is not None
Patterns == {"^$", ".*", "^.+$", "x", "y"}

re_search(repat, s) ==
    CASE repat = "^$" -> s = <<>>
      [] repat = ".*" -> TRUE
      [] repat = "^.+$" -> s # <<>>
      [] repat = "x" -> contains(s, <<"x">>)
      [] repat = "y" -> contains(s, <<"y">>)
      [] repat = "py" -> contains(s, <<"p", "y">>)

----------------------------------------------------------------------------
(* The attribute store: per file, per attribute name, absent or bytes *)

attr_tags == "user.xdg.tags"
attr_comment == "user.xdg.comment"
tag_sep == ","

Absent == [present |-> FALSE, bytes |-> <<>>]
Bytes(b) == [present |-> TRUE, bytes |-> b]

NoAttrs == [a \in {attr_tags, attr_comment} |-> Absent]

Ok(v) == [exc |-> "none", val |-> v]
Raise(e) == [exc |-> e, val |-> PyNone]

\* Editor.get_attr on the attributes st of the file; fails: the store
\* answers with an error other than ENODATA
get_attr(st, attrname, fails) ==
    IF fails THEN Raise("AttrError")
    ELSE IF ~st[attrname].present THEN Ok(PyNone)
    ELSE Ok(PyStr(decode(st[attrname].bytes)))

PyTrue == [type |-> "bool", str |-> <<>>, list |-> <<>>]

\* the outcome of a method: the exception raised ("none": it returned), the
\* value returned, the instance and the file's attributes afterwards
M(exc, val, self, st) == [exc |-> exc, val |-> val, self |-> self, st |-> st]

\* Editor.set_attr: writes the encoded str and returns the str
set_attr(self, st, attrname, value, fails) ==
    IF fails THEN M("AttrError", PyNone, self, st)
    ELSE M("none", PyStr(value), self,
           [st EXCEPT ![attrname] = Bytes(encode(value))])

\* remove_attr raising on ENODATA like on any other error of the store
remove_attr_nodata_raises(self, st, attrname, fails) ==
    IF fails \/ ~st[attrname].present THEN M("AttrError", PyNone, self, st)
    ELSE M("none", PyTrue, self, [st EXCEPT ![attrname] = Absent])

\* Editor.remove_attr: ENODATA (already removed) is swallowed
remove_attr(self, st, attrname, fails) ==
    IF fails THEN M("AttrError", PyNone, self, st)
    ELSE IF ~st[attrname].present THEN M("none", PyTrue, self, st)
    ELSE M("none", PyTrue, self, [st EXCEPT ![attrname] = Absent])

----------------------------------------------------------------------------
(* Editor: the class methods *)

parse_taglist(taglist) == join(tag_sep, sorted(set(taglist)))

RECURSIVE strip_nonempty(_)
strip_nonempty(l) ==
    IF l = <<>> THEN <<>>
    ELSE LET s == strip(l[1])
         IN IF s # <<>> THEN <<s>> \o strip_nonempty(Tail(l))
            ELSE strip_nonempty(Tail(l))

\* parse_tagstr(tagstr) for whatever Python value it is handed: a falsey
\* value gives [], a str is split, a non-empty list has no .split
parse_tagstr(tagstr) ==
    IF ~truthy(tagstr) THEN Ok(PyList(<<>>))
    ELSE IF tagstr.type = "list" THEN Raise("AttributeError")
    ELSE Ok(PyList(sorted(strip_nonempty(split(tagstr.str, tag_sep)))))

----------------------------------------------------------------------------
(* Editor: the instance methods.  self is [path, tags, comment]; fails says *)
(* whether the store call the method makes (if it makes one) fails.        *)

get_tags(self, st, refresh, fails) ==
    IF self.tags # <<>> /\ ~refresh THEN Ok(PyList(self.tags))
    ELSE LET tagstr == get_attr(st, attr_tags, fails)
         IN IF tagstr.exc # "none" THEN tagstr ELSE parse_tagstr(tagstr.val)

\* get_comment returning the raw value (no comment.strip())
get_comment_unstripped(self, st, refresh, fails) ==
    IF self.comment # <<>> /\ ~refresh THEN Ok(PyStr(self.comment))
    ELSE LET comment == get_attr(st, attr_comment, fails)
         IN IF comment.exc # "none" THEN comment
            ELSE IF ~truthy(comment.val) THEN Ok(PyStr(<<>>))
            ELSE Ok(PyStr(comment.val.str))

get_comment(self, st, refresh, fails) ==
    IF self.comment # <<>> /\ ~refresh THEN Ok(PyStr(self.comment))
    ELSE LET comment == get_attr(st, attr_comment, fails)
         IN IF comment.exc # "none" THEN comment
            ELSE IF ~truthy(comment.val) THEN Ok(PyStr(<<>>))
            ELSE Ok(PyStr(strip(comment.val.str)))

set_tags(self, st, taglist, fails) ==
    LET tagstr == parse_taglist(taglist)
        newvalue == set_attr(self, st, attr_tags, tagstr, fails)
    IN IF newvalue.exc # "none" THEN newvalue
       ELSE LET tags == parse_tagstr(newvalue.val).val.list
            IN M("none", PyList(tags), [self EXCEPT !.tags = tags], newvalue.st)

add_tags(self, st, taglist, fails) ==
    IF taglist = <<>> THEN M("ValueError", PyNone, self, st)
    ELSE LET extended == [self EXCEPT !.tags = self.tags \o taglist]
         IN set_tags(extended, st, extended.tags, fails)

RECURSIVE remove_each(_, _)
remove_each(tags, taglist) ==
    IF taglist = <<>> THEN tags
    ELSE remove_each(list_remove(tags, taglist[1]), Tail(taglist))

remove_tags(self, st, taglist, fails) ==
    LET removed == [self EXCEPT !.tags = remove_each(self.tags, taglist)]
        newtagstr == set_tags(removed, st, removed.tags, fails)
    IN IF newtagstr.exc # "none" THEN newtagstr
       ELSE LET parsed == parse_tagstr(newtagstr.val)
            IN M(parsed.exc, parsed.val, newtagstr.self, newtagstr.st)

\* clear_tags removing the other attribute
clear_tags_wrong_attr(self, st, fails) ==
    remove_attr(self, st, attr_comment, fails)

clear_tags(self, st, fails) == remove_attr(self, st, attr_tags, fails)

PyDict(items) == [type |-> "dict", str |-> <<>>, list |-> items]

\* Editor.get_attrs: the attributes listxattr names, each with the value
\* get_attr returns for it, as <<name, value>> items
get_attrs(self, st, fails) ==
    IF fails THEN Raise("AttrError")
    ELSE LET item(aname) ==
                 IF st[aname].present
                 THEN <<<<aname, get_attr(st, aname, FALSE).val.str>>>>
                 ELSE <<>>
         IN Ok(PyDict(item(attr_tags) \o item(attr_comment)))

clear_comment(self, st, fails) == remove_attr(self, st, attr_comment, fails)

set_comment(self, st, text, fails) ==
    LET w == set_attr(self, st, attr_comment, text, fails)
    IN IF w.exc # "none" THEN w
       ELSE M("none", w.val, [self EXCEPT !.comment = w.val.str], w.st)

\* match_tags without its case for an empty tag list: any([]) is False,
\* all([]) is True
match_tags_no_empty_case(self, st, repat, reverse, fails) ==
    LET got == get_tags(self, st, FALSE, fails)
    IN IF got.exc # "none" THEN M(got.exc, PyNone, self, st)
       ELSE LET tags == got.val.list
                me == [self EXCEPT !.tags = tags]
                ismatch(s) == IF reverse THEN ~re_search(repat, s)
                              ELSE re_search(repat, s)
                boolfilter == IF reverse
                              THEN \A i \in DOMAIN tags : ismatch(tags[i])
                              ELSE \E i \in DOMAIN tags : ismatch(tags[i])
            IN M("none", IF boolfilter THEN PyList(tags) ELSE PyNone, me, st)

match_tags(self, st, repat, reverse, fails) ==
    LET got == get_tags(self, st, FALSE, fails)
    IN IF got.exc # "none" THEN M(got.exc, PyNone, self, st)
       ELSE LET tags == got.val.list
                me == [self EXCEPT !.tags = tags]
                ismatch(s) == IF reverse THEN ~re_search(repat, s)
                              ELSE re_search(repat, s)
                boolfilter == IF reverse
                              THEN \A i \in DOMAIN tags : ismatch(tags[i])
                              ELSE \E i \in DOMAIN tags : ismatch(tags[i])
            IN IF tags = <<>>
               THEN M("none", IF ismatch(<<>>) THEN PyList(<<>>) ELSE PyNone,
                      me, st)
               ELSE M("none", IF boolfilter THEN PyList(tags) ELSE PyNone,
                      me, st)

\* match_comment giving up on an empty comment ("nothing to match")
match_comment_skip_empty(self, st, repat, reverse, fails) ==
    LET got == get_comment(self, st, FALSE, fails)
    IN IF got.exc # "none" THEN M(got.exc, PyNone, self, st)
       ELSE LET comment == got.val.str
                me == [self EXCEPT !.comment = comment]
                matched == IF reverse THEN ~re_search(repat, comment)
                           ELSE re_search(repat, comment)
            IN IF comment = <<>> THEN M("none", PyNone, me, st)
               ELSE M("none", IF matched THEN PyStr(comment) ELSE PyNone,
                      me, st)

match_comment(self, st, repat, reverse, fails) ==
    LET got == get_comment(self, st, FALSE, fails)
    IN IF got.exc # "none" THEN M(got.exc, PyNone, self, st)
       ELSE LET comment == got.val.str
                me == [self EXCEPT !.comment = comment]
                matched == IF reverse THEN ~re_search(repat, comment)
                           ELSE re_search(repat, comment)
            IN M("none", IF matched THEN PyStr(comment) ELSE PyNone, me, st)

\* Editor._get_path: an empty path leaves self.path unset, and reading it
\* raises AttributeError; Path.resolve() raises FileNotFoundError for a
\* missing file where it is strict (Python before 3.6)
get_path(path, exists, strict) ==
    IF path = "" THEN "AttributeError"
    ELSE IF ~exists /\ strict THEN "FileNotFoundError"
    ELSE "none"

\* Editor.__init__: tags and comment start empty, so both are read from the
\* store; failAt names the store call that fails (0: none, 1: the read of
\* the tags, 2: the read of the comment); every store call on a missing file
\* fails (ENOENT)
Editor(path, exists, st, failAt, strict) ==
    LET self0 == [path |-> path, tags |-> <<>>, comment |-> <<>>]
        resolved == get_path(path, exists, strict)
        t == get_tags(self0, st, FALSE, ~exists \/ failAt = 1)
    IN IF resolved # "none" THEN M(resolved, PyNone, self0, st)
       ELSE IF t.exc # "none" THEN M(t.exc, PyNone, self0, st)
       ELSE LET self1 == [self0 EXCEPT !.tags = t.val.list]
                c == get_comment(self1, st, FALSE, failAt = 2)
            IN IF c.exc # "none" THEN M(c.exc, PyNone, self1, st)
               ELSE M("none", PyNone,
                      [self1 EXCEPT !.comment = c.val.str], st)

----------------------------------------------------------------------------
(* The files, the Editor instances and the inputs of the model *)

Existing == {"f1", "f2"}
Paths == Existing \cup {"gone", ""}
Eds == {"e1"}

attrs_of(path) == IF path \in Existing THEN store[path] ELSE NoAttrs

SeqsUpTo(S, n) == UNION {[1..k -> S] : k \in 0..n}

\* tags as a caller may hand them over: empty, padded, plain
TagInputs == {<<>>, <<" ", "x">>, <<"x">>, <<"y">>}
\* lists of tags: every short list of them, a list with a repeated tag and
\* a tag with the separator in it
TagLists ==
    SeqsUpTo(TagInputs, MaxTags)
        \cup {<<<<"x">>, <<"y">>, <<"x">>>>, <<<<"x", ",", "y">>>>}

\* raw values another program may leave in the tags attribute
RawTags == {<<"y">>, <<"x", ",", "y">>, <<" ", "x", ",", ",", "x">>}

\* comments as a caller or another program may write them
Comments == {<<>>, <<"x">>, <<" ", "x", " ">>, <<"y", " ", "x">>}

NoEditor == [live |-> FALSE,
             self |-> [path |-> "", tags |-> <<>>, comment |-> <<>>]]

Ret(op, e, arg, repat, reverse, r, pre) ==
    [op |-> op, e |-> e, arg |-> arg, repat |-> repat, reverse |-> reverse,
     exc |-> r.exc, val |-> r.val, pre |-> pre]

NoRet == Ret("", "", PyNone, "", FALSE, Ok(PyNone), NoEditor.self)

Idle == [cmd |-> "", files |-> <<>>, state |-> "idle"]

\* a call of a method on the live instance e with outcome r
Call(e, op, arg, repat, reverse, r) ==
    /\ ed[e].live
    /\ ed' = [ed EXCEPT ![e].self = r.self]
    /\ store' = [store EXCEPT ![ed[e].self.path] = r.st]
    /\ ret' = Ret(op, e, arg, repat, reverse, r, ed[e].self)
    /\ UNCHANGED batch

Self(e) == ed[e].self
St(e) == store[ed[e].self.path]

----------------------------------------------------------------------------
(* Operations on one Editor *)

Construct(e, path) ==
    LET r == Editor(path, path \in Existing, attrs_of(path), 0, FALSE)
    IN /\ ed' = [ed EXCEPT ![e] = [live |-> r.exc = "none", self |-> r.self]]
       /\ ret' = Ret("Editor", e, PyStr(<<>>), "", FALSE, r, ed[e].self)
       /\ UNCHANGED <<store, batch>>

SetTags(e, taglist) ==
    Call(e, "set_tags", PyList(taglist), "", FALSE,
         set_tags(Self(e), St(e), taglist, FALSE))

AddTags(e, taglist) ==
    Call(e, "add_tags", PyList(taglist), "", FALSE,
         add_tags(Self(e), St(e), taglist, FALSE))

RemoveTags(e, taglist) ==
    Call(e, "remove_tags", PyList(taglist), "", FALSE,
         remove_tags(Self(e), St(e), taglist, FALSE))

ClearTags(e) ==
    Call(e, "clear_tags", PyNone, "", FALSE, clear_tags(Self(e), St(e), FALSE))

GetTags(e, refresh) ==
    LET r == get_tags(Self(e), St(e), refresh, FALSE)
    IN Call(e, "get_tags", PyNone, "", refresh,
            M(r.exc, r.val, Self(e), St(e)))

MatchTags(e, repat, reverse) ==
    Call(e, "match_tags", PyNone, repat, reverse,
         match_tags(Self(e), St(e), repat, reverse, FALSE))

SetComment(e, text) ==
    Call(e, "set_comment", PyStr(text), "", FALSE,
         set_comment(Self(e), St(e), text, FALSE))

ClearComment(e) ==
    Call(e, "clear_comment", PyNone, "", FALSE,
         clear_comment(Self(e), St(e), FALSE))

GetComment(e, refresh) ==
    LET r == get_comment(Self(e), St(e), refresh, FALSE)
    IN Call(e, "get_comment", PyNone, "", refresh,
            M(r.exc, r.val, Self(e), St(e)))

MatchComment(e, repat, reverse) ==
    Call(e, "match_comment", PyNone, repat, reverse,
         match_comment(Self(e), St(e), repat, reverse, FALSE))

GetAttrs(e) ==
    LET r == get_attrs(Self(e), St(e), FALSE)
    IN Call(e, "get_attrs", PyNone, "", FALSE,
            M(r.exc, r.val, Self(e), St(e)))

\* another process sets or removes an attribute of a file
ExternalSet(path, attrname, raw) ==
    /\ store' = [store EXCEPT ![path][attrname] = Bytes(encode(raw))]
    /\ ret' = Ret("external", "", PyStr(raw), "", FALSE, Ok(PyNone),
                  NoEditor.self)
    /\ UNCHANGED <<ed, batch>>

ExternalRemove(path, attrname) ==
    /\ store' = [store EXCEPT ![path][attrname] = Absent]
    /\ ret' = Ret("external", "", PyNone, "", FALSE, Ok(PyNone),
                  NoEditor.self)
    /\ UNCHANGED <<ed, batch>>

---------------------------------------------------------------------------------------------------------------------------------------------------
(* Spec: one Editor on f1, its tag operations, and another program writing *)
(* the tags attribute of f1                                                *)

Init ==
    /\ store = [p \in Existing |-> NoAttrs]
    /\ ed = [e \in Eds |-> [live |-> TRUE,
                            self |-> Editor("f1", TRUE, NoAttrs, 0, FALSE).self]]
    /\ ret = NoRet
    /\ batch = Idle

Next ==
    \/ \E e \in Eds : Construct(e, "f1")
    \/ \E e \in Eds, taglist \in TagLists : SetTags(e, taglist)
    \/ \E e \in Eds, taglist \in TagLists : AddTags(e, taglist)
    \/ \E e \in Eds, taglist \in TagLists : RemoveTags(e, taglist)
    \/ \E e \in Eds : ClearTags(e)
    \/ \E e \in Eds, refresh \in BOOLEAN : GetTags(e, refresh)
    \/ \E e \in Eds, repat \in Patterns, reverse \in BOOLEAN :
           MatchTags(e, repat, reverse)
    \/ \E raw \in RawTags : ExternalSet("f1", attr_tags, raw)
    \/ ExternalRemove("f1", attr_tags)

Spec == Init /\ [][Next]_vars

----------------------------------------------------------------------------
(* SpecComment: one Editor on f1, its comment operations, and another      *)
(* program writing the comment attribute of f1                             *)

NextComment ==
    \/ \E e \in Eds : Construct(e, "f1")
    \/ \E e \in Eds, text \in Comments : SetComment(e, text)
    \/ \E e \in Eds : ClearComment(e)
    \/ \E e \in Eds, refresh \in BOOLEAN : GetComment(e, refresh)
    \/ \E e \in Eds, repat \in Patterns, reverse \in BOOLEAN :
           MatchComment(e, repat, reverse)
    \/ \E raw \in Comments : ExternalSet("f1", attr_comment, raw)
    \/ ExternalRemove("f1", attr_comment)

SpecComment == Init /\ [][NextComment]_vars

-----------------------------------------------------------------------------
(* SpecEdit: one Editor at a time on f1, with every operation of the class *)
(* on tags and comment, no other program writing, and f2 as the other file *)

EditTagLists == {<<>>, <<<<"x">>>>, <<<<"y">>>>, <<<<" ", "x">>, <<"x">>>>}
EditComments == {<<>>, <<" ", "x", " ">>}
EditPatterns == {"x", "^$"}

\* the attributes of a file that has the tag y and the comment "y"
Tagged == [NoAttrs EXCEPT ![attr_tags] = Bytes(encode(<<"y">>)),
                          ![attr_comment] = Bytes(encode(<<"y">>))]

InitEdit ==
    /\ store \in {[f \in Existing |-> IF f = "f2" THEN Tagged ELSE a] :
                     a \in {NoAttrs, Tagged}}
    /\ ed = [e \in Eds |-> NoEditor]
    /\ ret = NoRet
    /\ batch = Idle

NextEdit ==
    \/ \E e \in Eds : Construct(e, "f1")
    \/ \E e \in Eds, taglist \in EditTagLists : SetTags(e, taglist)
    \/ \E e \in Eds, taglist \in EditTagLists : AddTags(e, taglist)
    \/ \E e \in Eds, taglist \in EditTagLists : RemoveTags(e, taglist)
    \/ \E e \in Eds : ClearTags(e)
    \/ \E e \in Eds, refresh \in BOOLEAN : GetTags(e, refresh)
    \/ \E e \in Eds, repat \in EditPatterns, reverse \in BOOLEAN :
           MatchTags(e, repat, reverse)
    \/ \E e \in Eds, text \in EditComments : SetComment(e, text)
    \/ \E e \in Eds : ClearComment(e)
    \/ \E e \in Eds, refresh \in BOOLEAN : GetComment(e, refresh)
    \/ \E e \in Eds, repat \in EditPatterns, reverse \in BOOLEAN :
           MatchComment(e, repat, reverse)
    \/ \E e \in Eds : GetAttrs(e)

SpecEdit == InitEdit /\ [][NextEdit]_vars

-----------------------------------------------------------------------------
(* SpecRace: two Editors of f1, both constructed before either writes;     *)
(* each then performs one tag mutation, in either order                    *)

RaceEds == {"e1", "e2"}
RaceTagLists == {<<<<"x">>>>, <<<<"y">>>>, <<<<"x">>, <<"y">>>>}

\* the attributes of a file that has the tags x and y
TaggedXY == [NoAttrs EXCEPT ![attr_tags] = Bytes(encode(<<"x", ",", "y">>))]

InitRace ==
    /\ store \in {[f \in Existing |-> IF f = "f1" THEN a ELSE NoAttrs] :
                     a \in {NoAttrs, Tagged, TaggedXY}}
    /\ ed = [e \in RaceEds |->
                [live |-> TRUE,
                 self |-> Editor("f1", TRUE, store["f1"], 0, FALSE).self,
                 wrote |-> FALSE, exc |-> "none"]]
    /\ ret = NoRet
    /\ batch = Idle

\* the one mutation of the instance e, with outcome r
Race(e, op, taglist, r) ==
    /\ ~ed[e].wrote
    /\ ed' = [ed EXCEPT ![e].self = r.self, ![e].wrote = TRUE,
                        ![e].exc = r.exc]
    /\ store' = [store EXCEPT ![ed[e].self.path] = r.st]
    /\ ret' = Ret(op, e, PyList(taglist), "", FALSE, r, ed[e].self)
    /\ UNCHANGED batch

RaceSetTags(e, taglist) ==
    Race(e, "set_tags", taglist, set_tags(Self(e), St(e), taglist, FALSE))

RaceAddTags(e, taglist) ==
    Race(e, "add_tags", taglist, add_tags(Self(e), St(e), taglist, FALSE))

RaceRemoveTags(e, taglist) ==
    Race(e, "remove_tags", taglist,
         remove_tags(Self(e), St(e), taglist, FALSE))

NextRace ==
    \/ \E e \in RaceEds, taglist \in RaceTagLists : RaceSetTags(e, taglist)
    \/ \E e \in RaceEds, taglist \in RaceTagLists : RaceAddTags(e, taglist)
    \/ \E e \in RaceEds, taglist \in RaceTagLists :
           RaceRemoveTags(e, taglist)

SpecRace == InitRace /\ [][NextRace]_vars

----------------------------------------------------------------------------
(* SpecBatch: the batch commands search (search_tags), add_tag and         *)
(* remove_tag over a list of file names.  One step is one pass of the      *)
(* command's for loop.                                                     *)

\* tag arguments of add_tag and remove_tag, as typed on the command line;
\* the empty one and the lone separator name no tag
TagArgs == {<<"x">>, <<"x", ",", "y">>, <<>>, <<",">>}
\* pattern arguments of search; "(" does not compile
BatchPatterns == {"py", "x", "^$", "("}

\* try_repat: the compiled pattern, or None for one re.compile rejects
try_repat(s) == IF s = "(" THEN PyNone ELSE PyStr(<<s>>)
\* the store call of a pass that fails: 0 none, 1 and 2 the reads of
\* Editor.__init__, 3 the call made by match_tags or add_tags
FailPoints == 0..3

Running(cmd, files, repat, reverse, tags, strict) ==
    [cmd |-> cmd, files |-> files, repat |-> repat, reverse |-> reverse,
     tags |-> tags, strict |-> strict, state |-> "running", i |-> 1,
     found |-> 0, errs |-> 0, emitted |-> <<>>, log |-> <<>>,
     exc |-> "none", result |-> 0, before |-> store]

\* search(filenames, pattern, reverse) is called: a pattern that does not
\* compile makes it return 1 at once, any other goes to search_tags
StartSearch(files, repat, reverse, strict) ==
    /\ batch.state = "idle"
    /\ batch' = IF try_repat(repat) = PyNone
                THEN [Running("search", files, repat, reverse, <<>>, strict)
                          EXCEPT !.state = "returned", !.result = 1]
                ELSE Running("search_tags", files, repat, reverse, <<>>,
                             strict)
    /\ UNCHANGED <<store, ed, ret>>

\* remove_tag(filenames, tagstr) is called: the tag argument is parsed
StartRemoveTag(files, tagstr, strict) ==
    /\ batch.state = "idle"
    /\ batch' = Running("remove_tag", files, "", FALSE,
                        parse_tagstr(PyStr(tagstr)).val.list, strict)
    /\ UNCHANGED <<store, ed, ret>>

\* add_tag(filenames, tagstr) is called: the tag argument is parsed
StartAddTag(files, tagstr, strict) ==
    /\ batch.state = "idle"
    /\ batch' = Running("add_tag", files, "", FALSE,
                        parse_tagstr(PyStr(tagstr)).val.list, strict)
    /\ UNCHANGED <<store, ed, ret>>

\* why a pass ended as it did: a path that does not resolve or exist, a
\* failing store call, an exception of the method itself, or none of these
Cause(path, exc) ==
    IF exc = "none" THEN "ok"
    ELSE IF path \notin Existing THEN "path"
    ELSE IF exc = "AttrError" THEN "store"
    ELSE "method"

\* an exception leaves the command: nothing after it runs
Propagate(path, exc) ==
    batch' = [batch EXCEPT !.state = "raised", !.exc = exc,
                           !.log = Append(@, Cause(path, exc))]

\* search_tags taking an empty tag list for "no match" (if tags:)
SearchPass_truthy(failAt) ==
    /\ batch.state = "running" /\ batch.cmd = "search_tags"
    /\ batch.i <= Len(batch.files)
    /\ LET filename == batch.files[batch.i]
           editor == Editor(filename, filename \in Existing,
                            attrs_of(filename), failAt, batch.strict)
           tags == match_tags(editor.self, editor.st, batch.repat,
                              batch.reverse, failAt = 3)
       IN /\ IF editor.exc # "none"
             THEN /\ Propagate(filename, editor.exc)
                  /\ UNCHANGED ed
             ELSE /\ ed' = [ed EXCEPT !["e1"] =
                                [live |-> TRUE, self |-> tags.self]]
                  /\ IF tags.exc = "AttrError"
                     THEN batch' = [batch EXCEPT
                                        !.errs = @ + 1, !.i = @ + 1,
                                        !.log = Append(@, "store")]
                     ELSE batch' = [batch EXCEPT
                                        !.found = IF truthy(tags.val)
                                                  THEN @ + 1 ELSE @,
                                        !.emitted = IF truthy(tags.val)
                                                    THEN Append(@, filename)
                                                    ELSE @,
                                        !.i = @ + 1,
                                        !.log = Append(@, "ok")]
          /\ UNCHANGED <<store, ret>>

\* one pass of the loop of search_tags
SearchPass(failAt) ==
    /\ batch.state = "running" /\ batch.cmd = "search_tags"
    /\ batch.i <= Len(batch.files)
    /\ LET filename == batch.files[batch.i]
           editor == Editor(filename, filename \in Existing,
                            attrs_of(filename), failAt, batch.strict)
           tags == match_tags(editor.self, editor.st, batch.repat,
                              batch.reverse, failAt = 3)
       IN /\ IF editor.exc # "none"
             THEN /\ Propagate(filename, editor.exc)
                  /\ UNCHANGED ed
             ELSE /\ ed' = [ed EXCEPT !["e1"] =
                                [live |-> TRUE, self |-> tags.self]]
                  /\ IF tags.exc = "AttrError"
                     THEN batch' = [batch EXCEPT
                                        !.errs = @ + 1, !.i = @ + 1,
                                        !.log = Append(@, "store")]
                     ELSE batch' = [batch EXCEPT
                                        !.found = IF tags.val # PyNone
                                                  THEN @ + 1 ELSE @,
                                        !.emitted = IF tags.val # PyNone
                                                    THEN Append(@, filename)
                                                    ELSE @,
                                        !.i = @ + 1,
                                        !.log = Append(@, "ok")]
          /\ UNCHANGED <<store, ret>>

\* one pass of the loop of add_tag
AddTagPass(failAt) ==
    /\ batch.state = "running" /\ batch.cmd = "add_tag"
    /\ batch.i <= Len(batch.files)
    /\ LET filename == batch.files[batch.i]
           editor == Editor(filename, filename \in Existing,
                            attrs_of(filename), failAt, batch.strict)
           settags == add_tags(editor.self, editor.st, batch.tags,
                               failAt = 3)
       IN IF editor.exc # "none"
          THEN /\ Propagate(filename, editor.exc)
               /\ UNCHANGED <<store, ed, ret>>
          ELSE /\ ed' = [ed EXCEPT !["e1"] =
                             [live |-> TRUE, self |-> settags.self]]
               /\ store' = [store EXCEPT ![filename] = settags.st]
               /\ IF settags.exc = "AttrError"
                  THEN batch' = [batch EXCEPT
                                     !.errs = @ + 1, !.i = @ + 1,
                                     !.log = Append(@, "store")]
                  ELSE IF settags.exc # "none"
                  THEN Propagate(filename, settags.exc)
                  ELSE batch' = [batch EXCEPT
                                     !.emitted = Append(@, filename),
                                     !.i = @ + 1,
                                     !.log = Append(@, "ok")]
               /\ UNCHANGED ret

\* one pass of the loop of remove_tag
RemoveTagPass(failAt) ==
    /\ batch.state = "running" /\ batch.cmd = "remove_tag"
    /\ batch.i <= Len(batch.files)
    /\ LET filename == batch.files[batch.i]
           editor == Editor(filename, filename \in Existing,
                            attrs_of(filename), failAt, batch.strict)
           finaltags == remove_tags(editor.self, editor.st, batch.tags,
                                    failAt = 3)
       IN IF editor.exc # "none"
          THEN /\ Propagate(filename, editor.exc)
               /\ UNCHANGED <<store, ed, ret>>
          ELSE /\ ed' = [ed EXCEPT !["e1"] =
                             [live |-> TRUE, self |-> finaltags.self]]
               /\ store' = [store EXCEPT ![filename] = finaltags.st]
               /\ IF finaltags.exc = "AttrError"
                  THEN batch' = [batch EXCEPT
                                     !.errs = @ + 1, !.i = @ + 1,
                                     !.log = Append(@, "store")]
                  ELSE IF finaltags.exc # "none"
                  THEN Propagate(filename, finaltags.exc)
                  ELSE batch' = [batch EXCEPT
                                     !.emitted = Append(@, filename),
                                     !.i = @ + 1,
                                     !.log = Append(@, "ok")]
               /\ UNCHANGED ret

\* the loop is over: the command returns its error count
BatchReturn ==
    /\ batch.state = "running"
    /\ batch.i > Len(batch.files)
    /\ batch' = [batch EXCEPT !.state = "returned", !.result = batch.errs]
    /\ UNCHANGED <<store, ed, ret>>

FileLists == SeqsUpTo(Paths, MaxFiles)

InitBatch ==
    /\ store \in [Existing -> {NoAttrs,
                               [NoAttrs EXCEPT ![attr_tags] =
                                    Bytes(encode(<<"p", "y">>))]}]
    /\ ed = [e \in Eds |-> NoEditor]
    /\ ret = NoRet
    /\ batch = Idle

NextBatch ==
    \/ \E files \in FileLists, repat \in BatchPatterns,
          reverse \in BOOLEAN, strict \in BOOLEAN :
           StartSearch(files, repat, reverse, strict)
    \/ \E files \in FileLists, tagstr \in TagArgs, strict \in BOOLEAN :
           StartAddTag(files, tagstr, strict)
    \/ \E files \in FileLists, tagstr \in TagArgs, strict \in BOOLEAN :
           StartRemoveTag(files, tagstr, strict)
    \/ \E failAt \in FailPoints : SearchPass(failAt)
    \/ \E failAt \in FailPoints : AddTagPass(failAt)
    \/ \E failAt \in FailPoints : RemoveTagPass(failAt)
    \/ BatchReturn

SpecBatch == InitBatch /\ [][NextBatch]_vars

----------------------------------------------------------------------------
(* What the specification expects, stated apart from the code *)

\* the elements of l that are not in the list gone
Without(l, gone) ==
    SelectSeq(l, LAMBDA t : \A i \in DOMAIN gone : gone[i] # t)

\* split at the separator, trimmed, non-empty, duplicate-free, sorted
Normalized(l) ==
    sorted(set(strip_nonempty(split(join(tag_sep, l), tag_sep))))

IsSortedSet(l) == \A i \in 1..(Len(l) - 1) : StrLess(l[i], l[i + 1])

CleanTag(t) ==
    /\ t # <<>>
    /\ \A i \in DOMAIN t : t[i] # tag_sep
    /\ strip(t) = t

\* the tags and the comment a newly constructed Editor would load
StoredTags(path) == parse_tagstr(get_attr(store[path], attr_tags, FALSE).val).val.list
StoredComment(path) ==
    get_comment([path |-> path, tags |-> <<>>, comment |-> <<>>],
                store[path], TRUE, FALSE).val.str

Returned(op) == ret.op = op /\ ret.exc = "none"

----------------------------------------------------------------------------
(* The claims *)

\* C1: remove_tags never fails over absent tags: it removes the given tags
\* that are present, writes the remaining set and returns it as a list of
\* strings, also when the remaining set is not empty.
C1_RemoveTagsReturnsRemaining ==
    ret.op = "remove_tags" =>
        LET remaining == Without(Normalized(ret.pre.tags), ret.arg.list)
        IN /\ ret.exc = "none"
           /\ ret.val = PyList(remaining)
           /\ StoredTags(Self(ret.e).path) = remaining

\* C2: set_tags(L) followed by get_tags() gives the sorted, duplicate-free
\* list of the trimmed non-empty elements of L, and set_tags of that result
\* gives the same list again.
C2_SetTagsNormalizes ==
    Returned("set_tags") =>
        LET e == ret.e
            got == get_tags(Self(e), St(e), FALSE, FALSE).val.list
        IN /\ got = Normalized(ret.arg.list)
           /\ set_tags(Self(e), St(e), got, FALSE).val.list = got

\* C3: match_tags returns the tag list exactly when, forward, some tag
\* matches (an empty tag list: the pattern matches the empty string) or,
\* reverse, no tag matches (an empty tag list: the pattern does not match the
\* empty string), and None otherwise; so ^$ on no tags matches forward and
\* not in reverse, and .* on some tags matches forward and never in reverse.
C3_MatchTagsRule ==
    Returned("match_tags") =>
        LET tags == Self(ret.e).tags
            some == \E i \in DOMAIN tags : re_search(ret.repat, tags[i])
            onempty == re_search(ret.repat, <<>>)
            expected ==
                IF tags = <<>> THEN (IF ret.reverse THEN ~onempty ELSE onempty)
                ELSE (IF ret.reverse THEN ~some ELSE some)
        IN /\ ret.val = IF expected THEN PyList(tags) ELSE PyNone
           /\ (tags = <<>> /\ ret.repat = "^$") =>
                  ret.val = IF ret.reverse THEN PyNone ELSE PyList(<<>>)
           /\ (tags # <<>> /\ ret.repat = ".*") =>
                  ret.val = IF ret.reverse THEN PyNone ELSE PyList(tags)

\* match_tags has matched ^$ forward on a file without tags
C3_Witness ==
    /\ Returned("match_tags") /\ ret.repat = "^$" /\ ~ret.reverse
    /\ Self(ret.e).tags = <<>> /\ ret.val = PyList(<<>>)
    /\ StoredTags("f1") = <<>>

\* C4: match_tags evaluates the pattern against the tags held in the store
\* at the time of the call, also when they were changed after the Editor
\* loaded them.
C4_MatchTagsUsesStore ==
    Returned("match_tags") =>
        LET e == ret.e
            fresh == [Self(e) EXCEPT !.tags = StoredTags(Self(e).path)]
        IN /\ Self(e).tags = StoredTags(Self(e).path)
           /\ ret.val = match_tags(fresh, St(e), ret.repat, ret.reverse,
                                   FALSE).val

\* C7: add_tags(A) then add_tags(B) stores and returns what one
\* add_tags(A + B) does, the sorted duplicate-free union of T, A and B.
C7_AddTagsUnion ==
    \A e \in Eds : \A A, B \in TagLists \ {<<>>} :
        LET one == add_tags(Self(e), St(e), A, FALSE)
            two == add_tags(one.self, one.st, B, FALSE)
            both == add_tags(Self(e), St(e), A \o B, FALSE)
        IN /\ two.val = both.val
           /\ two.st = both.st
           /\ both.val = PyList(Normalized(Self(e).tags \o A \o B))

\* C8: on a file without attributes add_tags(["x","y","x"]) makes the tags
\* ["x","y"]; then remove_tags(["x"]) makes them ["y"] and returns them; and
\* after clear_tags() a call of get_tags() returns [].
C8_Scenario ==
    LET x == <<"x">>
        y == <<"y">>
    IN /\ (ret.op = "add_tags" /\ ret.arg = PyList(<<x, y, x>>)
             /\ ret.pre.tags = <<>>)
          => (ret.exc = "none" /\ ret.val = PyList(<<x, y>>)
                /\ StoredTags("f1") = <<x, y>>)
       /\ (ret.op = "remove_tags" /\ ret.arg = PyList(<<x>>)
             /\ ret.pre.tags = <<x, y>>)
          => (ret.exc = "none" /\ ret.val = PyList(<<y>>)
                /\ StoredTags("f1") = <<y>>)
       /\ (ret.op = "clear_tags" /\ ret.pre.tags = <<y>>)
          => get_tags(Self(ret.e), St(ret.e), FALSE, FALSE).val = PyList(<<>>)

\* C9: after set_tags, add_tags or remove_tags the raw stored value is the
\* separator-join of the in-memory tag list, and that list is sorted and
\* duplicate-free with no tag empty, padded or containing the separator.
C9_StoredTagsCanonical ==
    (ret.op \in {"set_tags", "add_tags", "remove_tags"}
        /\ ret.exc \in {"none", "AttributeError"}) =>
        LET e == ret.e
            tags == Self(e).tags
            raw == St(e)[attr_tags]
        IN /\ raw = Bytes(encode(join(tag_sep, tags)))
           /\ IsSortedSet(tags)
           /\ \A i \in DOMAIN tags : CleanTag(tags[i])

\* C10: match_comment returns the comment exactly when the pattern is found
\* in it (forward) or not found in it (reverse), None otherwise; the empty
\* comment is matched like any other string: ^$ matches it forward, not in
\* reverse.
C10_MatchCommentRule ==
    Returned("match_comment") =>
        LET comment == Self(ret.e).comment
            found == re_search(ret.repat, comment)
        IN /\ ret.val = IF found # ret.reverse THEN PyStr(comment) ELSE PyNone
           /\ (comment = <<>> /\ ret.repat = "^$") =>
                  ret.val = IF ret.reverse THEN PyNone ELSE PyStr(<<>>)

\* match_comment has matched ^$ forward on a file without a comment
C10_Witness ==
    /\ Returned("match_comment") /\ ret.repat = "^$" /\ ~ret.reverse
    /\ ~St(ret.e)[attr_comment].present
    /\ Self(ret.e).comment = <<>> /\ ret.val = PyStr(<<>>)

Ended == batch.state \in {"returned", "raised"}

Count(log, c) == Cardinality({i \in DOMAIN log : log[i] = c})

\* C5: in a batch command a store failure on one file, wherever in that
\* file's processing it occurs, adds one to the error count, and every later
\* file is still processed: the batch is never aborted.
C5_StoreErrorsCounted ==
    (Ended /\ \A i \in DOMAIN batch.log : batch.log[i] \in {"ok", "store"}) =>
        /\ batch.state = "returned"
        /\ Len(batch.log) = Len(batch.files)
        /\ batch.errs = Count(batch.log, "store")

\* C6: a path error at the construction of the Editor of one file of a batch
\* aborts that file only: the remaining files are still processed.
C6_PathErrorSkipsOneFile ==
    (Ended /\ \A i \in DOMAIN batch.log : batch.log[i] \in {"ok", "path"}) =>
        /\ batch.state = "returned"
        /\ Len(batch.log) = Len(batch.files)

\* whether the specification has a file with these tags match
SpecMatch(tags, repat, reverse) ==
    IF tags = <<>> THEN re_search(repat, <<>>) # reverse
    ELSE (\E i \in DOMAIN tags : re_search(repat, tags[i])) # reverse

\* C11: a search without store errors emits exactly the files whose tags
\* match, counts them in found and returns 0 errors, also when nothing
\* matches; with f1 untagged and f2 tagged "py", the pattern py emits f2
\* forward and f1 in reverse.
C11_SearchEmitsMatches ==
    (batch.cmd = "search_tags" /\ batch.state = "returned"
        /\ \A i \in DOMAIN batch.log : batch.log[i] = "ok") =>
        /\ batch.emitted =
               SelectSeq(batch.files,
                         LAMBDA f : SpecMatch(StoredTags(f), batch.repat,
                                              batch.reverse))
        /\ batch.found = Len(batch.emitted)
        /\ batch.errs = 0 /\ batch.result = 0
        /\ (batch.files = <<"f1", "f2">> /\ batch.repat = "py"
              /\ StoredTags("f1") = <<>>
              /\ StoredTags("f2") = <<<<"p", "y">>>>)
           => batch.emitted = IF batch.reverse THEN <<"f1">> ELSE <<"f2">>

\* the reverse search for py over f1 (untagged) and f2 (tagged "py") has
\* returned, having emitted f1 alone
C11_Witness ==
    /\ batch.cmd = "search_tags" /\ batch.state = "returned"
    /\ batch.files = <<"f1", "f2">> /\ batch.repat = "py" /\ batch.reverse
    /\ StoredTags("f2") = <<<<"p", "y">>>>
    /\ batch.log = <<"ok", "ok">>
    /\ batch.emitted = <<"f1">> /\ batch.found = 1 /\ batch.result = 0

\* a command called with an argument that names no tag, or with a pattern
\* that does not compile
InvalidArgument ==
    \/ batch.cmd \in {"add_tag", "remove_tag"} /\ batch.tags = <<>>
    \/ batch.cmd = "search"

\* C12: a command given an invalid argument returns a nonzero result before
\* any file is touched: no Editor is constructed, no attribute is written.
C12_InvalidArgumentTouchesNothing ==
    InvalidArgument =>
        /\ batch.log = <<>>
        /\ store = batch.before
        /\ batch.state # "raised"
        /\ batch.state = "returned" => batch.result # 0

\* C13: for any non-empty list of tags S and any starting tag set,
\* set_tags(S) followed by remove_tags(S) on the same Editor returns [] and
\* leaves the stored tag set empty.
C13_SetThenRemoveEmpties ==
    \A e \in Eds : \A S \in TagLists \ {<<>>} :
        ed[e].live =>
            LET put == set_tags(Self(e), St(e), S, FALSE)
                gone == remove_tags(put.self, put.st, S, FALSE)
            IN /\ gone.exc = "none"
               /\ gone.val = PyList(<<>>)
               /\ parse_tagstr(get_attr(gone.st, attr_tags, FALSE).val)
                      .val.list = <<>>

\* C14: get_tags reading the store returns, for every raw stored value, a
\* sorted sequence of non-empty, trimmed, separator-free tags in which no
\* tag occurs twice; an absent attribute and an empty value both give [].
C14_GetTagsIsSortedSet ==
    (Returned("get_tags") /\ ret.reverse) =>
        LET tags == ret.val.list
            raw == St(ret.e)[attr_tags]
        IN /\ IsSortedSet(tags)
           /\ \A i \in DOMAIN tags : CleanTag(tags[i])
           /\ (~raw.present \/ raw.bytes = <<>>) => tags = <<>>

\* s without its leading and trailing blanks
Trimmed(s) ==
    LET inked == {i \in DOMAIN s : s[i] # " "}
    IN IF inked = {} THEN <<>>
       ELSE SubSeq(s, CHOOSE i \in inked : \A j \in inked : i <= j,
                      CHOOSE i \in inked : \A j \in inked : j <= i)

\* the comment a newly constructed Editor for the path holds
NewEditorComment(path) ==
    Editor(path, TRUE, store[path], 0, FALSE).self.comment

\* C16: set_comment(text) stores text verbatim, the empty string too (an
\* empty value, present), and returns text unchanged; a newly constructed
\* Editor then reads text trimmed, and reads "" for an absent attribute and
\* for an empty value.
C16_SetCommentVerbatim ==
    /\ Returned("set_comment") =>
           LET path == Self(ret.e).path
           IN /\ ret.val = ret.arg
              /\ store[path][attr_comment] = Bytes(encode(ret.arg.str))
              /\ store[path][attr_comment].present
              /\ NewEditorComment(path) = Trimmed(ret.arg.str)
    /\ \A path \in Existing :
           LET raw == store[path][attr_comment]
           IN (~raw.present \/ raw.bytes = <<>>) =>
                  NewEditorComment(path) = <<>>

\* set_comment(" x ") has returned " x " and stored it with its blanks; a
\* new Editor reads "x"
C16_Witness ==
    /\ Returned("set_comment")
    /\ ret.arg = PyStr(<<" ", "x", " ">>)
    /\ ret.val = PyStr(<<" ", "x", " ">>)
    /\ St(ret.e)[attr_comment] = Bytes(encode(<<" ", "x", " ">>))
    /\ NewEditorComment(Self(ret.e).path) = <<"x">>

\* C15: clear_tags and clear_comment return True without error whether or
\* not the attribute is present, so also when applied again, and leave the
\* attribute absent; when the Editor held no value for it before (as for an
\* attribute never set), the next read returns the empty value.
C15_ClearAlwaysSucceeds ==
    /\ ret.op = "clear_tags" =>
           /\ ret.exc = "none" /\ ret.val = PyTrue
           /\ ~St(ret.e)[attr_tags].present
           /\ ret.pre.tags = <<>> =>
                  get_tags(Self(ret.e), St(ret.e), FALSE, FALSE)
                      = Ok(PyList(<<>>))
    /\ ret.op = "clear_comment" =>
           /\ ret.exc = "none" /\ ret.val = PyTrue
           /\ ~St(ret.e)[attr_comment].present
           /\ ret.pre.comment = <<>> =>
                  get_comment(Self(ret.e), St(ret.e), FALSE, FALSE)
                      = Ok(PyStr(<<>>))

\* clear_tags has returned True on a file that never had tags or a comment
C15_Witness ==
    /\ Returned("clear_tags") /\ ret.val = PyTrue
    /\ ret.pre.tags = <<>> /\ ret.pre.comment = <<>>
    /\ St(ret.e) = NoAttrs
    /\ get_tags(Self(ret.e), St(ret.e), FALSE, FALSE) = Ok(PyList(<<>>))

TagMutators == {"set_tags", "add_tags", "remove_tags", "clear_tags"}
CommentMutators == {"set_comment", "clear_comment"}
Readers ==
    {"get_tags", "get_comment", "get_attrs", "match_tags", "match_comment"}

\* C17: with one Editor and no other writer, after each mutating operation
\* returns, the Editor's tags and comment are what reading and parsing the
\* stored attributes gives, i.e. what a new Editor of the path would hold.
C17_CacheEqualsStore ==
    (ret.op \in TagMutators \cup CommentMutators /\ ret.exc = "none") =>
        LET self == Self(ret.e)
        IN /\ self.tags = StoredTags(self.path)
           /\ self.comment = StoredComment(self.path)
           /\ get_tags(self, St(ret.e), FALSE, FALSE).val.list
                  = StoredTags(self.path)
           /\ get_comment(self, St(ret.e), FALSE, FALSE).val.str
                  = StoredComment(self.path)

\* what a step of an Editor operation may change
FrameStep ==
    LET e == ret'.e
        path == ed[e].self.path
    IN /\ ret'.op \in TagMutators =>
              /\ store'[path][attr_comment] = store[path][attr_comment]
              /\ ed'[e].self.comment = ed[e].self.comment
       /\ ret'.op \in CommentMutators =>
              /\ store'[path][attr_tags] = store[path][attr_tags]
              /\ ed'[e].self.tags = ed[e].self.tags
       /\ ret'.op \in Readers => store' = store
       /\ ret'.op \in TagMutators \cup CommentMutators \cup Readers =>
              \A other \in Existing \ {path} : store'[other] = store[other]

\* C19: every Editor operation changes at most one attribute of its own
\* file: the tag operations leave the stored and the in-memory comment as
\* they were, the comment operations the stored and the in-memory tags, the
\* reading and matching operations write nothing, and no operation changes
\* an attribute of another file.
C19_OneAttributePerOperation == [][FrameStep]_vars

\* clear_tags has removed the tags of f1, whose comment is still stored and
\* held by the Editor, next to f2 with its own attributes
C19_Witness ==
    /\ Returned("clear_tags")
    /\ ret.pre.tags # <<>>
    /\ ~store["f1"][attr_tags].present
    /\ store["f1"][attr_comment] = Bytes(encode(<<"y">>))
    /\ Self(ret.e).comment = <<"y">>
    /\ store["f2"] = Tagged

\* the tags the writer of the last call computes from the tags it had
\* loaded and its argument
LastWriterTags ==
    CASE ret.op = "set_tags" -> Normalized(ret.arg.list)
      [] ret.op = "add_tags" -> Normalized(ret.pre.tags \o ret.arg.list)
      [] ret.op = "remove_tags" -> Without(ret.pre.tags, ret.arg.list)

\* C18: when two Editors of one path are both constructed before either
\* writes and each then performs a tag mutation, no error is raised and the
\* stored tags after both calls are exactly what the later writer computed
\* from its own loaded tags.
C18_LastWriterWins ==
    (\A e \in RaceEds : ed[e].wrote) =>
        /\ \A e \in RaceEds : ed[e].exc = "none"
        /\ StoredTags("f1") = LastWriterTags

====
